---------------------------- MODULE Spec2Model ----------------------------
(***************************************************************************)
(* A model of eql/utils.py: the type converter built by get_type_converter *)
(* and the event readers stream_events, stream_json_lines,                 *)
(* stream_file_events and stream_stdin_events.                             *)
(*                                                                         *)
(* Python values are records [t, n, s, keys, items]: t is the Python type  *)
(* ("none", "int", "str", "list", "dict"), n the value of an int, s the    *)
(* value of a str, keys and items the keys and the values of a dict or the *)
(* items of a list.  Strings of characters (paths, format names, file      *)
(* texts) are sequences of lexemes: "." "/" "json" "jsonl" "gz" "a" for    *)
(* names, and " " "\n" "1" "x" "[" "]" "," "{" "}" ":" "\"a\"" for texts.  *)
(***************************************************************************)
EXTENDS Integers, Sequences, FiniteSets, TLC

\* ------------------------------------------------------------------ bounds
\* The number of values (scalars, or tuple slots over all tuples) of an input
\* of get_type_converter.
MaxCells == 6

\* The number of lexemes of a path, of a file_format, of a text of lines and
\* of a text of a document.
MaxPathLen == 5

MaxFormatLen == 4

MaxText == 6

MaxDoc == 5

\* ------------------------------------------------------------ Python values
Val(t, n, s, keys, items) == [t |-> t, n |-> n, s |-> s, keys |-> keys, items |-> items]

PyNone == Val("none", 0, "", <<>>, <<>>)

PyInt(n) == Val("int", n, "", <<>>, <<>>)

PyStr(s) == Val("str", 0, s, <<>>, <<>>)

PyList(items) == Val("list", 0, "", <<>>, items)

PyDict(keys, items) == Val("dict", 0, "", keys, items)

\* The scalars the converter is fed with.
Scalars == {PyNone, PyInt(0), PyInt(1), PyStr(""), PyStr("x")}

\* bool(v): None, 0, "" and empty containers are false.
Truthy(v) ==
    CASE v.t = "none" -> FALSE
      [] v.t = "int"  -> v.n # 0
      [] v.t = "str"  -> v.s # ""
      [] v.t = "list" -> v.items # <<>>
      [] v.t = "dict" -> v.keys # <<>>

\* type(v)(): the value the constructor of v's type gives without arguments.
TypeCall(v) ==
    CASE v.t = "int"  -> PyInt(0)
      [] v.t = "str"  -> PyStr("")
      [] v.t = "list" -> PyList(<<>>)
      [] v.t = "dict" -> PyDict(<<>>, <<>>)

\* get_empty(v)
get_empty(v) == IF v = PyNone THEN PyNone ELSE TypeCall(v)

\* x or empty, without the truthiness rule: only None is replaced.
NoneOr(x, empty) == IF x # PyNone THEN x ELSE empty

\* x or empty
Or(x, empty) == IF Truthy(x) THEN x ELSE empty

\* An item of the input of get_type_converter: a scalar (tup = FALSE, one
\* value) or a tuple of values.
Scalar(v) == [tup |-> FALSE, vals |-> <<v>>]

Tuple(vs) == [tup |-> TRUE, vals |-> vs]

Tuples(k) == {Tuple(vs) : vs \in [1..k -> Scalars]}

SeqsUpTo(S, n) == UNION {[1..m -> S] : m \in 0..n}

\* The inputs: sequences of scalars, and sequences of tuples of one arity,
\* of at most MaxCells values in all (an empty tuple counts for one).
ScalarInputs == SeqsUpTo({Scalar(v) : v \in Scalars}, MaxCells)

TupleInputs ==
    UNION {[1..m -> Tuples(k)] : <<k, m>> \in
              {km \in (0..MaxCells) \X (1..MaxCells) :
                  (IF km[1] = 0 THEN 1 ELSE km[1]) * km[2] <= MaxCells}}

VARIABLES
    items,          \* get_type_converter: the input sequence
    consumed,       \* how many items the iterator has handed out
    cpc,            \* "start", "scan", "built"
    cmode,          \* the converter returned: "none", "default", "scalar", "tuple"
    empty_values,   \* empty (a one-slot vector in scalar mode) or empty_values
    applied,        \* the converter has been called
    arg,            \* the item it was called with
    result,         \* the item it returned
    source,         \* the reader called: "file", "stdin", "direct" (stream_events)
    file_path,      \* stream_file_events: file_path
    file_format,    \* the file_format argument: [given, s], given = FALSE for None
    text,           \* the text of the source, once decompressed and decoded
    stored_gz,      \* the source holds the text gzip-compressed
    pc,             \* "created", "opened", "lines", "events", "returned",
                    \* "done", "raised", "closed", and "idle"
    handle,         \* the handle stream_file_events owns: "none", "open", "closed"
    reader,         \* how the source is read: "none", "plain", "gzip"
    fmt,            \* the local file_format
    parser,         \* the branch of stream_events taken: "none", "jsonl", "json"
    unread,         \* the text not read from the source yet
    pending,        \* json: the items of the document not yielded yet
    doc,            \* json: the document json.load returned
    atyield,        \* the generator is suspended at a yield
    out,            \* the records yielded so far
    err             \* the exception raised: [kind, lineno, token]

cvars == <<items, consumed, cpc, cmode, empty_values, applied, arg, result>>

inputs == <<source, file_path, file_format, text, stored_gz>>

svars == <<inputs, pc, handle, reader, fmt, parser, unread, pending, doc, atyield, out, err>>

vars == <<cvars, svars>>

NoFormat == [given |-> FALSE, s |-> <<>>]

Format(s) == [given |-> TRUE, s |-> s]

NoError == [kind |-> "none", lineno |-> 0, token |-> <<>>]

\* The reader variables while nothing is read, or before the call.
StreamAt(p) ==
    /\ pc = p
    /\ handle = "none"
    /\ reader = "none"
    /\ fmt = <<>>
    /\ parser = "none"
    /\ unread = text
    /\ pending = <<>>
    /\ doc = PyNone
    /\ atyield = FALSE
    /\ out = <<>>
    /\ err = NoError

\* The converter variables while no converter is built, or before the call.
ConvAt(p) ==
    /\ consumed = 0
    /\ cpc = p
    /\ cmode = "none"
    /\ empty_values = <<>>
    /\ applied = FALSE
    /\ arg = Scalar(PyNone)
    /\ result = Scalar(PyNone)

\* ----------------------------------------------------- get_type_converter
InitConv ==
    /\ items \in ScalarInputs \cup TupleInputs
    /\ ConvAt("start")
    /\ source = "none"
    /\ file_path = <<>>
    /\ file_format = NoFormat
    /\ text = <<>>
    /\ stored_gz = FALSE
    /\ StreamAt("idle")

\* The stop test of the tuple loop, never true: the scan reads the whole input.
AllFilledNever(ev) == FALSE

\* The stop test of the tuple loop, true as soon as one slot is filled.
AllFilledAny(ev) == \E i \in 1..Len(ev) : ev[i] # PyNone

\* all(v is not None for v in empty_values)
AllFilled(ev) == \A i \in 1..Len(ev) : ev[i] # PyNone

\* The update of the slots without the test that the slot is still None: the
\* type seen last wins.
UpdateEmptyLast(ev, item_tuple) ==
    [i \in 1..Len(ev) |->
        IF item_tuple.vals[i] # PyNone
        THEN TypeCall(item_tuple.vals[i])
        ELSE ev[i]]

\* Lines 86-89: the slots that are still None take the type of the tuple's value.
UpdateEmpty(ev, item_tuple) ==
    [i \in 1..Len(ev) |->
        IF item_tuple.vals[i] # PyNone /\ ev[i] = PyNone
        THEN TypeCall(item_tuple.vals[i])
        ELSE ev[i]]

\* Lines 66-83: first = next(items), then the seed of the empty value(s).
Start ==
    /\ cpc = "start"
    /\ IF items = <<>>
       THEN /\ cmode' = "default"
            /\ cpc' = "built"
            /\ UNCHANGED <<consumed, empty_values>>
       ELSE /\ consumed' = 1
            /\ IF ~items[1].tup
               THEN /\ cmode' = "scalar"
                    /\ empty_values' = <<get_empty(items[1].vals[1])>>
                    /\ cpc' = IF get_empty(items[1].vals[1]) = PyNone THEN "scan" ELSE "built"
               ELSE /\ cmode' = "tuple"
                    /\ empty_values' = [i \in 1..Len(items[1].vals) |-> get_empty(items[1].vals[i])]
                    /\ cpc' = "scan"
    /\ UNCHANGED <<items, applied, arg, result>>
    /\ UNCHANGED svars

\* Lines 75-78: one turn of the scalar loop, or its end.
ScalarScan ==
    /\ cpc = "scan"
    /\ cmode = "scalar"
    /\ IF consumed = Len(items)
       THEN /\ cpc' = "built"
            /\ UNCHANGED <<consumed, empty_values>>
       ELSE /\ consumed' = consumed + 1
            /\ IF items[consumed + 1].vals[1] # PyNone
               THEN /\ empty_values' = <<get_empty(items[consumed + 1].vals[1])>>
                    /\ cpc' = "built"
               ELSE UNCHANGED <<cpc, empty_values>>
    /\ UNCHANGED <<items, cmode, applied, arg, result>>
    /\ UNCHANGED svars

\* Lines 85-92: one turn of the tuple loop, or its end.
TupleScan ==
    /\ cpc = "scan"
    /\ cmode = "tuple"
    /\ IF consumed = Len(items)
       THEN /\ cpc' = "built"
            /\ UNCHANGED <<consumed, empty_values>>
       ELSE /\ consumed' = consumed + 1
            /\ empty_values' = UpdateEmpty(empty_values, items[consumed + 1])
            /\ cpc' = IF AllFilled(UpdateEmpty(empty_values, items[consumed + 1]))
                      THEN "built" ELSE "scan"
    /\ UNCHANGED <<items, cmode, applied, arg, result>>
    /\ UNCHANGED svars

\* default_converter(_)
default_converter(x) == Scalar(PyNone)

\* lambda x: x or empty
scalar_converter(x, ev) == Scalar(Or(x.vals[1], ev[1]))

\* convert_types(tup)
convert_types(tup, ev) == Tuple([i \in 1..Len(ev) |-> Or(tup.vals[i], ev[i])])

\* A call of the returned converter, on an item of the sequence it was built
\* from (on any scalar for the converter of an empty sequence).
Convert ==
    /\ cpc = "built"
    /\ ~applied
    /\ \E x \in (IF cmode = "default" THEN {Scalar(v) : v \in Scalars}
                 ELSE {items[j] : j \in 1..Len(items)}) :
          /\ arg' = x
          /\ result' = CASE cmode = "default" -> default_converter(x)
                         [] cmode = "scalar"  -> scalar_converter(x, empty_values)
                         [] cmode = "tuple"   -> convert_types(x, empty_values)
    /\ applied' = TRUE
    /\ UNCHANGED <<items, consumed, cpc, cmode, empty_values>>
    /\ UNCHANGED svars

NextConv == Start \/ ScalarScan \/ TupleScan \/ Convert

SpecConv == InitConv /\ [][NextConv]_vars

\* ------------------------------------------------------- strings of lexemes
Last(s) == s[Len(s)]

\* s.endswith(suffix)
EndsWith(s, suffix) ==
    /\ Len(s) >= Len(suffix)
    /\ SubSeq(s, Len(s) - Len(suffix) + 1, Len(s)) = suffix

\* gz_ext = '.gz'
gz_ext == <<".", "gz">>

\* s[:-len(gz_ext)], for an s that ends with gz_ext
DropGz(s) == SubSeq(s, 1, Len(s) - Len(gz_ext))

\* s.rfind(c), from 1, 0 when c is not in s
RFind(s, c) ==
    IF \E i \in 1..Len(s) : s[i] = c
    THEN CHOOSE i \in 1..Len(s) : s[i] = c /\ \A j \in (i + 1)..Len(s) : s[j] # c
    ELSE 0

\* os.path.splitext(p): the extension starts at the last dot of the last
\* component, unless only dots precede that dot in the component.
splitext(p) ==
    LET sepIndex == RFind(p, "/")
        dotIndex == RFind(p, ".")
    IN  IF /\ dotIndex > sepIndex
           /\ \E f \in (sepIndex + 1)..(dotIndex - 1) : p[f] # "."
        THEN <<SubSeq(p, 1, dotIndex - 1), SubSeq(p, dotIndex, Len(p))>>
        ELSE <<p, <<>>>>

\* lstrip without effect
LstripNothing(s) == s

RECURSIVE Lstrip(_)
\* s.lstrip(".")
Lstrip(s) == IF s # <<>> /\ Head(s) = "." THEN Lstrip(Tail(s)) ELSE s

Whitespace == {" ", "\n"}

RECURSIVE LstripWs(_)
LstripWs(s) == IF s # <<>> /\ Head(s) \in Whitespace THEN LstripWs(Tail(s)) ELSE s

RECURSIVE RstripWs(_)
RstripWs(s) ==
    IF s # <<>> /\ Last(s) \in Whitespace THEN RstripWs(SubSeq(s, 1, Len(s) - 1)) ELSE s

\* s.strip()
Strip(s) == RstripWs(LstripWs(s))

\* The index of the first "\n" of t, 0 when there is none.
NewlineAt(t) ==
    IF \E i \in 1..Len(t) : t[i] = "\n"
    THEN CHOOSE i \in 1..Len(t) : t[i] = "\n" /\ \A j \in 1..(i - 1) : t[j] # "\n"
    ELSE 0

\* The line the iteration of a text file hands out next: up to the first
\* "\n", which belongs to it, or the rest of the text.
FirstLine(t) == IF NewlineAt(t) = 0 THEN t ELSE SubSeq(t, 1, NewlineAt(t))

AfterFirstLine(t) == IF NewlineAt(t) = 0 THEN <<>> ELSE SubSeq(t, NewlineAt(t) + 1, Len(t))

\* ---------------------------------------------------------------- json.loads
Ok(v, nxt) == [ok |-> TRUE, val |-> v, nxt |-> nxt]

\* A JSONDecodeError at position pos.
Fail(pos) == [ok |-> FALSE, val |-> PyNone, nxt |-> pos]

RECURSIVE SkipWs(_, _)
SkipWs(s, i) == IF i <= Len(s) /\ s[i] \in Whitespace THEN SkipWs(s, i + 1) ELSE i

RECURSIVE NumEnd(_, _)
\* The index after the digits that start at i.
NumEnd(s, i) == IF i <= Len(s) /\ s[i] = "1" THEN NumEnd(s, i + 1) ELSE i

RECURSIVE Ones(_)
\* The number written with n digits 1.
Ones(n) == IF n = 0 THEN 0 ELSE 10 * Ones(n - 1) + 1

\* dict[k] = v: a key that is there keeps its place.
DictPut(d, k, v) ==
    IF \E i \in 1..Len(d.keys) : d.keys[i] = k
    THEN PyDict(d.keys, [i \in 1..Len(d.keys) |-> IF d.keys[i] = k THEN v ELSE d.items[i]])
    ELSE PyDict(Append(d.keys, k), Append(d.items, v))

RECURSIVE ScanOnce(_, _), ScanArray(_, _, _), ScanObject(_, _, _)

\* scan_once(s, i): the value that starts at i.
ScanOnce(s, i) ==
    IF i > Len(s) THEN Fail(i)
    ELSE CASE s[i] = "1" -> Ok(PyInt(Ones(NumEnd(s, i) - i)), NumEnd(s, i))
           [] s[i] = "\"a\"" -> Ok(PyStr("a"), i + 1)
           [] s[i] = "[" ->
                LET j == SkipWs(s, i + 1)
                IN  IF j <= Len(s) /\ s[j] = "]" THEN Ok(PyList(<<>>), j + 1)
                    ELSE ScanArray(s, j, <<>>)
           [] s[i] = "{" ->
                LET j == SkipWs(s, i + 1)
                IN  IF j <= Len(s) /\ s[j] = "}" THEN Ok(PyDict(<<>>, <<>>), j + 1)
                    ELSE ScanObject(s, j, PyDict(<<>>, <<>>))
           [] OTHER -> Fail(i)

\* The items of an array from i on, acc the items before.
ScanArray(s, i, acc) ==
    LET r == ScanOnce(s, i)
        j == SkipWs(s, r.nxt)
    IN  IF ~r.ok THEN r
        ELSE IF j > Len(s) THEN Fail(j)
        ELSE IF s[j] = "]" THEN Ok(PyList(Append(acc, r.val)), j + 1)
        ELSE IF s[j] = "," THEN ScanArray(s, SkipWs(s, j + 1), Append(acc, r.val))
        ELSE Fail(j)

\* The members of an object from i on, acc the members before.
ScanObject(s, i, acc) ==
    IF i > Len(s) \/ s[i] # "\"a\"" THEN Fail(i)
    ELSE LET c == SkipWs(s, i + 1)
         IN  IF c > Len(s) \/ s[c] # ":" THEN Fail(c)
             ELSE LET r == ScanOnce(s, SkipWs(s, c + 1))
                      j == SkipWs(s, r.nxt)
                  IN  IF ~r.ok THEN r
                      ELSE IF j > Len(s) THEN Fail(j)
                      ELSE IF s[j] = "}" THEN Ok(DictPut(acc, "a", r.val), j + 1)
                      ELSE IF s[j] = "," THEN ScanObject(s, SkipWs(s, j + 1), DictPut(acc, "a", r.val))
                      ELSE Fail(j)

\* json.loads(s): one value, with whitespace around it and nothing else.
json_loads(s) ==
    LET r == ScanOnce(s, SkipWs(s, 1))
    IN  IF ~r.ok THEN r
        ELSE IF SkipWs(s, r.nxt) # Len(s) + 1 THEN Fail(SkipWs(s, r.nxt))
        ELSE r

\* JSONDecodeError.lineno: the line of the parsed string the position is on.
LineNo(s, pos) == 1 + Cardinality({i \in 1..Len(s) : i < pos /\ s[i] = "\n"})

DecodeError(s, pos) == [kind |-> "DecodeError", lineno |-> LineNo(s, pos), token |-> <<>>]

\* iter(v) raises TypeError for None and for a number.
Iterable(v) == v.t \in {"list", "dict", "str"}

\* The values a for loop over v takes: the items of a list, the keys of a
\* dict, the characters of a string.
IterOf(v) ==
    CASE v.t = "list" -> v.items
      [] v.t = "dict" -> [i \in 1..Len(v.keys) |-> PyStr(v.keys[i])]
      [] v.t = "str"  -> IF v.s = "" THEN <<>> ELSE <<PyStr(v.s)>>

\* ---------------------------------------------------------- the event readers
\* not file_format
NotGiven(ff) == ~ff.given \/ ff.s = <<>>

\* The format taken from the extensions of the path, when gz_ext is not put
\* back on the format found under it.
PathFormatNoGz(path) ==
    IF splitext(path)[2] = gz_ext
    THEN splitext(DropGz(path))[2]
    ELSE splitext(path)[2]

\* Lines 158-162: the format taken from the extensions of the path.
PathFormat(path) ==
    IF splitext(path)[2] = gz_ext
    THEN splitext(DropGz(path))[2] \o gz_ext
    ELSE splitext(path)[2]

\* The file_format of stream_file_events before the test for gz_ext.
FileFormat(path, ff) == IF NotGiven(ff) THEN PathFormat(path) ELSE ff.s

\* file_format or 'jsonl'
StdinFormat(ff) == IF NotGiven(ff) THEN <<"jsonl">> ELSE ff.s

\* The with block left without closing the handle.
LeaveOpen(h) == h

\* with handle: the handle is closed on every way out of the block.
ExitWith(h) == IF h = "open" THEN "closed" ELSE h

\* The first read fails when the source is not stored the way it is read: a
\* gzip reader on plain text that is not empty, a text reader on gzip data.
ReadFails(r) ==
    \/ r = "gzip" /\ ~stored_gz /\ text # <<>>
    \/ r = "plain" /\ stored_gz

Raise(e) ==
    /\ err' = e
    /\ pc' = "raised"
    /\ handle' = ExitWith(handle)
    /\ atyield' = FALSE

\* Lines 156-169 and 181-187, at the first next() of the generator: the format
\* is resolved and the source opened.
Resolve ==
    /\ pc = "created"
    /\ source \in {"file", "stdin"}
    /\ LET ff == IF source = "file" THEN FileFormat(file_path, file_format)
                 ELSE StdinFormat(file_format)
       IN  IF EndsWith(ff, gz_ext)
           THEN fmt' = DropGz(ff) /\ reader' = "gzip"
           ELSE fmt' = ff /\ reader' = "plain"
    /\ handle' = IF source = "file" THEN "open" ELSE "none"
    /\ pc' = "opened"
    /\ UNCHANGED <<inputs, parser, unread, pending, doc, atyield, out, err>>
    /\ UNCHANGED cvars

\* Lines 199-206: stream_events(fileobj, file_format), and for the generators
\* the start of the for loop over what it returns.
Dispatch ==
    /\ \/ pc = "opened" /\ fmt' = fmt /\ reader' = reader
       \/ /\ pc = "created" /\ source = "direct"
          /\ fmt' = (IF file_format.given THEN file_format.s ELSE <<"json">>)
          /\ reader' = "plain"
    /\ LET token == Lstrip(fmt')
       IN  CASE token = <<"jsonl">> ->
                  /\ parser' = "jsonl"
                  /\ pc' = "lines"
                  /\ UNCHANGED <<handle, unread, pending, doc, atyield, err>>
             [] token = <<"json">> ->
                  /\ parser' = "json"
                  /\ IF ReadFails(reader')
                     THEN /\ Raise([kind |-> "ReadError", lineno |-> 0, token |-> <<>>])
                          /\ UNCHANGED <<unread, pending, doc>>
                     ELSE /\ unread' = <<>>
                          /\ IF ~json_loads(text).ok
                             THEN /\ Raise(DecodeError(text, json_loads(text).nxt))
                                  /\ UNCHANGED <<pending, doc>>
                             ELSE /\ doc' = json_loads(text).val
                                  /\ IF source = "direct"
                                     THEN /\ pc' = "returned"
                                          /\ UNCHANGED <<handle, pending, atyield, err>>
                                     ELSE IF ~Iterable(json_loads(text).val)
                                     THEN /\ Raise([kind |-> "TypeError", lineno |-> 0, token |-> <<>>])
                                          /\ UNCHANGED pending
                                     ELSE /\ pending' = IterOf(json_loads(text).val)
                                          /\ pc' = "events"
                                          /\ UNCHANGED <<handle, atyield, err>>
             [] OTHER ->
                  /\ Raise([kind |-> "NotImplementedError", lineno |-> 0, token |-> token])
                  /\ UNCHANGED <<parser, unread, pending, doc>>
    /\ UNCHANGED <<inputs, out>>
    /\ UNCHANGED cvars

\* The test for an empty line left out: every line is parsed.
IsBlankNever(line) == FALSE

\* line.strip() is empty
IsBlank(line) == Strip(line) = <<>>

\* Lines 143-146: one turn of the loop of stream_json_lines, up to its yield,
\* its exception or its end.
NextLine ==
    /\ pc = "lines"
    /\ IF ReadFails(reader)
       THEN /\ Raise([kind |-> "ReadError", lineno |-> 0, token |-> <<>>])
            /\ UNCHANGED <<unread, out>>
       ELSE IF unread = <<>>
       THEN /\ pc' = "done"
            /\ handle' = ExitWith(handle)
            /\ atyield' = FALSE
            /\ UNCHANGED <<unread, out, err>>
       ELSE /\ unread' = AfterFirstLine(unread)
            /\ IF IsBlank(FirstLine(unread))
               THEN /\ atyield' = FALSE
                    /\ UNCHANGED <<pc, handle, out, err>>
               ELSE IF json_loads(Strip(FirstLine(unread))).ok
               THEN /\ out' = Append(out, json_loads(Strip(FirstLine(unread))).val)
                    /\ atyield' = TRUE
                    /\ UNCHANGED <<pc, handle, err>>
               ELSE /\ Raise(DecodeError(Strip(FirstLine(unread)),
                                         json_loads(Strip(FirstLine(unread))).nxt))
                    /\ UNCHANGED out
    /\ UNCHANGED <<inputs, reader, fmt, parser, pending, doc>>
    /\ UNCHANGED cvars

\* Lines 172-173 and 189-190 over a document: the next item is yielded, or
\* the loop ends.
NextEvent ==
    /\ pc = "events"
    /\ IF pending = <<>>
       THEN /\ pc' = "done"
            /\ handle' = ExitWith(handle)
            /\ atyield' = FALSE
            /\ UNCHANGED <<pending, out>>
       ELSE /\ out' = Append(out, Head(pending))
            /\ pending' = Tail(pending)
            /\ atyield' = TRUE
            /\ UNCHANGED <<pc, handle>>
    /\ UNCHANGED <<inputs, reader, fmt, parser, unread, doc, err>>
    /\ UNCHANGED cvars

\* The caller closes the generator: before its first next(), or while it is
\* suspended at a yield, where GeneratorExit leaves the with block.
Close ==
    /\ \/ pc = "created" /\ source # "direct"
       \/ pc \in {"lines", "events"} /\ atyield
    /\ pc' = "closed"
    /\ handle' = ExitWith(handle)
    /\ atyield' = FALSE
    /\ UNCHANGED <<inputs, reader, fmt, parser, unread, pending, doc, out, err>>
    /\ UNCHANGED cvars

NextStream == Resolve \/ Dispatch \/ NextLine \/ NextEvent \/ Close

\* ------------------------------------------------------------------ inputs
NameLexemes == {".", "/", "a", "json", "jsonl", "gz"}

FormatLexemes == {".", "a", "json", "jsonl", "gz"}

LineLexemes == {" ", "\n", "1", "x"}

DocLexemes == {"[", "]", ",", "1", "{", "}", ":", "\"a\""}

\* The last component of a path.
Basename(p) == SubSeq(p, RFind(p, "/") + 1, Len(p))

\* A path that can name a file: its last component is not empty, "." or "..".
IsFilePath(p) == Basename(p) \notin {<<>>, <<".">>, <<".", ".">>}

FilePaths == {p \in SeqsUpTo(NameLexemes, MaxPathLen) : IsFilePath(p)}

Formats == {NoFormat} \cup {Format(s) : s \in SeqsUpTo(FormatLexemes, MaxFormatLen)}

SamplePaths == {<<"a", ".", "json">>, <<"a", ".", "jsonl", ".", "gz">>, <<"a">>}

\* A text that is a document and a line: [1]
SampleText == <<"[", "1", "]">>

\* Every path without file_format; every file_format with some paths, on
\* stdin and straight to stream_events; every text of lines as jsonl; every
\* text of the lexemes of documents as json.
InitStream ==
    /\ items = <<>>
    /\ ConvAt("idle")
    /\ \/ /\ source = "file"
          /\ file_path \in FilePaths
          /\ file_format = NoFormat
          /\ text = SampleText
          /\ stored_gz \in BOOLEAN
       \/ /\ source = "file"
          /\ file_path \in SamplePaths
          /\ file_format \in Formats
          /\ text = SampleText
          /\ stored_gz \in BOOLEAN
       \/ /\ source = "stdin"
          /\ file_path = <<>>
          /\ file_format \in Formats
          /\ text = SampleText
          /\ stored_gz \in BOOLEAN
       \/ /\ source = "direct"
          /\ file_path = <<>>
          /\ file_format \in Formats
          /\ text = SampleText
          /\ stored_gz = FALSE
       \/ /\ source \in {"file", "stdin", "direct"}
          /\ file_path = (IF source = "file" THEN <<"a", ".", "jsonl">> ELSE <<>>)
          /\ file_format = (IF source = "direct" THEN Format(<<"jsonl">>) ELSE NoFormat)
          /\ text \in SeqsUpTo(LineLexemes, MaxText)
          /\ stored_gz = FALSE
       \/ /\ source \in {"file", "stdin"}
          /\ file_path = (IF source = "file" THEN <<"a", ".", "json">> ELSE <<>>)
          /\ file_format = (IF source = "file" THEN NoFormat ELSE Format(<<"json">>))
          /\ text \in SeqsUpTo(DocLexemes, MaxDoc)
          /\ stored_gz = FALSE
    /\ StreamAt("created")

SpecStream == InitStream /\ [][NextStream]_vars

\* ------------------------------------------------ claims on the converter
\* The values of position i of the input, in order.
Column(i) == [j \in 1..Len(items) |-> items[j].vals[i]]

HasValue(i) == \E j \in 1..Len(items) : Column(i)[j] # PyNone

\* The first value of position i that is not None.
FirstValue(i) ==
    Column(i)[CHOOSE j \in 1..Len(items) :
                 /\ Column(i)[j] # PyNone
                 /\ \A h \in 1..(j - 1) : Column(i)[h] = PyNone]

\* A position of the input read so far holds a value that is not None.
SeenValue(i) == \E j \in 1..consumed : Column(i)[j] # PyNone

\* C1 as stated: in scalar mode, on a sequence with a value that is not None,
\* the converter returns no None, returns every input that is not None as it
\* is, and returns type(v)() of the first non-None v for a None.
C1_Stated ==
    (cmode = "scalar" /\ applied /\ HasValue(1)) =>
        /\ result.vals[1] # PyNone
        /\ (arg.vals[1] # PyNone => result = arg)
        /\ (arg.vals[1] = PyNone => result = Scalar(TypeCall(FirstValue(1))))

\* C1 amended: in scalar mode, on a sequence with a value that is not None,
\* the converter returns no None, returns every truthy input as it is, and
\* returns type(v)() of the first non-None v for every input that is None or
\* falsy (0, "").
C1_ScalarConverter ==
    (cmode = "scalar" /\ applied /\ HasValue(1)) =>
        /\ ~result.tup
        /\ result.vals[1] # PyNone
        /\ (Truthy(arg.vals[1]) => result = arg)
        /\ (~Truthy(arg.vals[1]) => result = Scalar(TypeCall(FirstValue(1))))

\* A falsy string is replaced by the zero of the int seen first, and a None too.
C1_Witness ==
    /\ cmode = "scalar" /\ applied
    /\ Len(items) = 3
    /\ items[1] = Scalar(PyNone)
    /\ FirstValue(1) = PyInt(1)
    /\ arg = Scalar(PyStr(""))
    /\ result = Scalar(PyInt(0))

\* C2 as stated: in tuple mode the result has the arity of the input and, at
\* every position that holds a value somewhere in the sequence, is not None,
\* is the input when the input is not None, and is type(v)() of the first
\* non-None v of the position when the input is None.
C2_Stated ==
    (cmode = "tuple" /\ applied) =>
        /\ result.tup
        /\ Len(result.vals) = Len(arg.vals)
        /\ \A i \in 1..Len(arg.vals) : HasValue(i) =>
              /\ result.vals[i] # PyNone
              /\ (arg.vals[i] # PyNone => result.vals[i] = arg.vals[i])
              /\ (arg.vals[i] = PyNone => result.vals[i] = TypeCall(FirstValue(i)))

\* C2 amended: in tuple mode the result has the arity of the input and, at
\* every position that holds a value somewhere in the sequence, is not None,
\* is the input when the input is truthy, and is type(v)() of the first
\* non-None v of the position when the input is None or falsy.
C2_TupleConverter ==
    (cmode = "tuple" /\ applied) =>
        /\ result.tup
        /\ Len(result.vals) = Len(arg.vals)
        /\ \A i \in 1..Len(arg.vals) : HasValue(i) =>
              /\ result.vals[i] # PyNone
              /\ (Truthy(arg.vals[i]) => result.vals[i] = arg.vals[i])
              /\ (~Truthy(arg.vals[i]) => result.vals[i] = TypeCall(FirstValue(i)))

\* The scenario of the specification: (1, None), (None, "x"), (3, None), here
\* with 1 for 3: the second tuple comes back as (0, "x").
C2_Witness ==
    /\ cmode = "tuple" /\ applied
    /\ items = <<Tuple(<<PyInt(1), PyNone>>), Tuple(<<PyNone, PyStr("x")>>),
                 Tuple(<<PyInt(1), PyNone>>)>>
    /\ arg = items[2]
    /\ result = Tuple(<<PyInt(0), PyStr("x")>>)

\* C3: at every step the empty value of a position is None or type(v)() of
\* the first value seen there that is not None; in the finished converter it
\* is None exactly when the whole input holds only None at the position, and
\* the converter then returns None for a None at that position.
C3_EmptyValues ==
    (cmode \in {"scalar", "tuple"}) =>
        \A i \in 1..Len(empty_values) :
            /\ \/ empty_values[i] = PyNone
               \/ SeenValue(i) /\ empty_values[i] = TypeCall(FirstValue(i))
            /\ cpc = "built" => (empty_values[i] = PyNone <=> ~HasValue(i))
            /\ (applied /\ empty_values[i] = PyNone /\ arg.vals[i] = PyNone)
                  => result.vals[i] = PyNone

\* A finished tuple converter with a slot left None and a slot filled by the
\* third tuple, called on a tuple that holds None at both.
C3_Witness ==
    /\ cmode = "tuple" /\ applied
    /\ Len(items) = 3
    /\ empty_values = <<PyNone, PyStr("")>>
    /\ consumed = 3
    /\ items[2].vals[2] = PyNone
    /\ arg.vals = <<PyNone, PyNone>>
    /\ result.vals = <<PyNone, PyStr("")>>

\* The tuples up to the j-th hold a value that is not None at every position.
FilledBy(j) ==
    \A i \in 1..Len(items[1].vals) : \E h \in 1..j : Column(i)[h] # PyNone

\* The tuple that fills the last empty slot (0 when some slot is never filled).
FillIndex ==
    IF \E j \in 1..Len(items) : FilledBy(j)
    THEN CHOOSE j \in 1..Len(items) : FilledBy(j) /\ \A h \in 1..(j - 1) : ~FilledBy(h)
    ELSE 0

Min(a, b) == IF a < b THEN a ELSE b

Max(a, b) == IF a < b THEN b ELSE a

\* C10 as stated: in tuple mode no tuple is taken from the iterator after the
\* one that filled the last empty slot, none after the first when the first
\* fills every slot.
\* (Stated for tuples of at least one slot: with empty tuples there
\* is no slot to fill.)
C10_Stated ==
    (cmode = "tuple" /\ Len(items[1].vals) > 0 /\ FillIndex > 0) => consumed <= FillIndex

\* C10 amended: in tuple mode no tuple is taken from the iterator after the
\* one that filled the last empty slot, except that the second tuple is
\* always taken when there is one: when the first tuple fills every slot,
\* exactly one tuple after it is taken.  A scan that fills no last slot takes
\* every tuple.
C10_EarlyStop ==
    (cmode = "tuple") =>
        /\ FillIndex > 0 => consumed <= Max(FillIndex, Min(2, Len(items)))
        /\ cpc = "built" =>
              consumed = (IF FillIndex > 0 THEN Max(FillIndex, Min(2, Len(items)))
                          ELSE Len(items))

\* The first tuple fills both slots, and the scan stops after the second of three.
C10_Witness ==
    /\ cmode = "tuple" /\ cpc = "built"
    /\ Len(items) = 3
    /\ Len(items[1].vals) = 2
    /\ FillIndex = 1
    /\ consumed = 2

\* -------------------------------------------------- claims on the readers
RECURSIVE AllLines(_)
\* The physical lines of a text.
AllLines(t) == IF t = <<>> THEN <<>> ELSE <<FirstLine(t)>> \o AllLines(AfterFirstLine(t))

\* A line with something else than whitespace on it.
NonBlank(line) == \E i \in 1..Len(line) : line[i] \notin Whitespace

WellFormed(line) == json_loads(line).ok

\* The records of a sequence of lines: the parse of each line that is not blank.
Records(lines) ==
    LET kept == SelectSeq(lines, NonBlank)
    IN  [j \in 1..Len(kept) |-> json_loads(kept[j]).val]

\* The part of the text read from the source so far.
ReadSoFar == SubSeq(text, 1, Len(text) - Len(unread))

\* The jsonl branch was taken and the source can be read.
ReadsLines == parser = "jsonl" /\ ~ReadFails(reader)

\* C4: in jsonl mode, on a source whose lines are blank or hold one valid JSON
\* value, the records yielded are, in order, the parses of the non-blank
\* lines read so far, nothing is raised, and at the end they are the parses
\* of all the non-blank lines.
C4_JsonLines ==
    (ReadsLines /\ \A j \in 1..Len(AllLines(text)) :
                      NonBlank(AllLines(text)[j]) => WellFormed(AllLines(text)[j])) =>
        /\ pc # "raised"
        /\ out = Records(AllLines(ReadSoFar))
        /\ pc = "done" => out = Records(AllLines(text))

\* Two records with a blank line between them, read from a file to the end.
C4_Witness ==
    /\ source = "file" /\ pc = "done"
    /\ text = <<"1", "\n", " ", "\n", "1", "1">>
    /\ out = <<PyInt(1), PyInt(11)>>

\* The number, from 1, of the first line that is not blank and not valid
\* JSON (0 when there is none).
FirstMalformed ==
    LET bad == {j \in 1..Len(AllLines(text)) :
                   NonBlank(AllLines(text)[j]) /\ ~WellFormed(AllLines(text)[j])}
    IN  IF bad = {} THEN 0 ELSE CHOOSE j \in bad : \A h \in bad : j <= h

\* C5 without the number of the line: a jsonl stream with a malformed line
\* yields the records of the lines before it and then raises a decode error.
C5_AbortsAtMalformed ==
    (ReadsLines /\ FirstMalformed > 0) =>
        /\ pc # "done"
        /\ pc = "raised" =>
              /\ err.kind = "DecodeError"
              /\ out = Records(SubSeq(AllLines(text), 1, FirstMalformed - 1))

\* C5 as stated: a jsonl stream with a malformed line yields the records of
\* the well-formed lines before it, then raises a decode error that names the
\* number, from 1, of that line in the stream, and yields nothing more.
C5_Stated ==
    (ReadsLines /\ FirstMalformed > 0 /\ pc = "raised") =>
        /\ err.kind = "DecodeError"
        /\ err.lineno = FirstMalformed
        /\ out = Records(SubSeq(AllLines(text), 1, FirstMalformed - 1))

\* s without its leading dots.
WithoutDots(s) ==
    SubSeq(s, 1 + Cardinality({i \in 1..Len(s) : \A j \in 1..i : s[j] = "."}), Len(s))

\* s without one trailing .gz.
WithoutGz(s) ==
    IF Len(s) >= 2 /\ s[Len(s) - 1] = "." /\ s[Len(s)] = "gz" THEN SubSeq(s, 1, Len(s) - 2) ELSE s

\* The format the call starts from: the argument, the format of the path for
\* a file without one, 'jsonl' on stdin without one, 'json' for stream_events.
GivenFormat ==
    CASE source = "file"   -> FileFormat(file_path, file_format)
      [] source = "stdin"  -> IF NotGiven(file_format) THEN <<"jsonl">> ELSE file_format.s
      [] source = "direct" -> IF file_format.given THEN file_format.s ELSE <<"json">>

\* The token stream_events decides on: for stream_file_events and
\* stream_stdin_events the format without a trailing .gz and without leading
\* dots, for stream_events its argument without leading dots.
ResolvedToken ==
    IF source = "direct" THEN WithoutDots(GivenFormat)
    ELSE WithoutDots(WithoutGz(GivenFormat))

Dispatched == pc \in {"lines", "events", "done", "raised"} \/ (pc = "closed" /\ reader # "none")

\* The parser a token selects.
ParserOf(token) ==
    CASE token = <<"jsonl">> -> "jsonl"
      [] token = <<"json">> -> "json"
      [] OTHER -> "none"

\* The last component of the path holds a lexeme other than a dot before its
\* last n lexemes.
HasStem(path, n) == \E f \in (RFind(path, "/") + 1)..(Len(path) - n) : path[f] # "."

\* A file_format decides alone: gzip when it ends with .gz, the parser of
\* what is left without leading dots.
FormatDecides ==
    (source = "file" /\ ~NotGiven(file_format) /\ Dispatched) =>
        /\ reader = (IF WithoutGz(file_format.s) # file_format.s THEN "gzip" ELSE "plain")
        /\ parser = ParserOf(WithoutDots(WithoutGz(file_format.s)))

\* What the path decides when it ends with the lexemes ext.
PathDecides(ext, r, p) ==
    (source = "file" /\ NotGiven(file_format) /\ Dispatched /\ EndsWith(file_path, ext)) =>
        reader = r /\ parser = p

\* C7 as stated: without file_format a path ending in .jsonl is read as
\* plain jsonl, in .json as plain json, in .jsonl.gz as jsonl through gzip,
\* in .json.gz as json through gzip; a file_format given decides alone.
C7_Stated ==
    /\ PathDecides(<<".", "jsonl">>, "plain", "jsonl")
    /\ PathDecides(<<".", "json">>, "plain", "json")
    /\ PathDecides(<<".", "jsonl", ".", "gz">>, "gzip", "jsonl")
    /\ PathDecides(<<".", "json", ".", "gz">>, "gzip", "json")
    /\ FormatDecides

\* C7 amended: the same, for the paths whose file name holds a character
\* other than a dot before the extension; a file_format that is given and
\* not empty decides alone.
C7_FormatResolution ==
    /\ HasStem(file_path, 2) => PathDecides(<<".", "jsonl">>, "plain", "jsonl")
    /\ HasStem(file_path, 2) => PathDecides(<<".", "json">>, "plain", "json")
    /\ HasStem(file_path, 4) => PathDecides(<<".", "jsonl", ".", "gz">>, "gzip", "jsonl")
    /\ HasStem(file_path, 4) => PathDecides(<<".", "json", ".", "gz">>, "gzip", "json")
    /\ FormatDecides

\* a.jsonl.gz without file_format, read as jsonl through gzip.
C7_Witness ==
    /\ source = "file" /\ pc = "lines"
    /\ file_path = <<"a", ".", "jsonl", ".", "gz">>
    /\ file_format = NoFormat
    /\ reader = "gzip" /\ parser = "jsonl"

\* C8: in stream_file_events the handle is open from the start of the body
\* to its end, a record is yielded only while it is open, and it is closed
\* once and for all when the iteration is over: at the end of the sequence,
\* after an exception, after the caller closed a started generator.
C8_HandleScope ==
    /\ [](source = "file" =>
            /\ pc \in {"opened", "lines", "events"} => handle = "open"
            /\ pc \in {"done", "raised"} => handle = "closed"
            /\ pc = "closed" => (IF reader = "none" THEN handle = "none" ELSE handle = "closed")
            /\ handle = "none" => out = <<>>)
    /\ [][source = "file" =>
            /\ out' # out => (handle = "open" /\ handle' = "open")
            /\ handle = "closed" => (handle' = "closed" /\ out' = out)]_vars

\* The caller closed the generator after the first of two records.
C8_Witness ==
    /\ source = "file" /\ pc = "closed"
    /\ handle = "closed"
    /\ Len(out) = 1
    /\ NonBlank(unread) /\ WellFormed(unread)

\* The json branch was taken by a generator and the document parsed.
ReadsDocument ==
    /\ source \in {"file", "stdin"}
    /\ parser = "json"
    /\ ~ReadFails(reader)
    /\ json_loads(text).ok

\* C9 for lists alone: a document that is a list of N items is yielded as
\* these N items in order.
C9_ListDocument ==
    (ReadsDocument /\ json_loads(text).val.t = "list") =>
        /\ pc # "raised"
        /\ pc = "done" => out = json_loads(text).val.items

\* C9 as stated: in json mode a document that is a list of N items is
\* yielded as these N items in order, and a document that is not a list as
\* one record, the document, after which the stream ends.
C9_Stated ==
    (ReadsDocument /\ pc \in {"done", "raised"}) =>
        /\ pc = "done"
        /\ out = (IF json_loads(text).val.t = "list" THEN json_loads(text).val.items
                  ELSE <<json_loads(text).val>>)

=============================================================================
